---- MODULE Spec2Model ----
(***************************************************************************)
(* Layout-aware key/value extraction of src/app.py: the phrase matcher     *)
(* (find_key_phrase), the bounding box aggregator (get_phrase_bbox), the   *)
(* area resolver (get_text_in_area) and the orchestrator                   *)
(* (process_license_with_doctr).                                           *)
(*                                                                         *)
(* Text is a sequence of characters, each character a one-character string *)
(* (two code points outside ASCII are written by their names, "U+0130" and *)
(* "U+0307").  Coordinates are page fractions in hundredths: 1.0 is 100,   *)
(* 0.02 is 2; a center (a+b)/2 is compared doubled, a+b against 2*bound.   *)
(* None and the empty list are both the empty tuple: the code only ever    *)
(* tests them for truth ("if not x").                                      *)
(*                                                                         *)
(* The job worker of src/services/worker/worker.py (main, callback) with   *)
(* the queue doc_proc_jobs and the collection processed_documents it       *)
(* works on, and the poll of src/services/web-app/app.py (get_result).     *)
(***************************************************************************)
EXTENDS Integers, Sequences, FiniteSets, TLC

VARIABLES pc, page_words, key_bboxes, search_area, value_words, extracted_data,
          phrase, bbox, ret,
          worker_pc, doc_proc_jobs, unacked, deliveries, acked, nacked, upserted,
          processed_documents, response

\* The state of the worker, of the queue and of the collection.
worker_vars == <<worker_pc, doc_proc_jobs, unacked, deliveries, acked, nacked,
                 upserted, processed_documents, response>>

vars == <<pc, page_words, key_bboxes, search_area, value_words, extracted_data,
          phrase, bbox, ret, worker_vars>>

\* No worker runs: nothing is queued, delivered or stored.
WorkerOff ==
    /\ worker_pc = "off"
    /\ doc_proc_jobs = {}
    /\ unacked = {}
    /\ deliveries = <<>>
    /\ acked = {}
    /\ nacked = {}
    /\ upserted = {}
    /\ processed_documents = <<>>
    /\ response = <<>>

None == <<>>

\* ------------------------------------------------------------------ text

UpperChars == <<"A","B","C","D","E","F","G","H","I","J","K","L","M",
                "N","O","P","Q","R","S","T","U","V","W","X","Y","Z">>

LowerChars == <<"a","b","c","d","e","f","g","h","i","j","k","l","m",
                "n","o","p","q","r","s","t","u","v","w","x","y","z">>

DigitChars == {"0","1","2","3","4","5","6","7","8","9"}

Range(s) == {s[i] : i \in 1..Len(s)}

\* \w of a str pattern: alphanumeric code points and the underscore.  U+0130
\* (capital I with dot above) is a letter; U+0307 (combining dot above) is a
\* mark, not alphanumeric.
WordChars == Range(UpperChars) \cup Range(LowerChars) \cup DigitChars \cup {"_", "U+0130"}

IsWordChar(c) == c \in WordChars

\* re.sub(r'[^\w]', '', s)
StripNonWord(s) == SelectSeq(s, IsWordChar)

\* str.lower() of one character: U+0130 lower-cases to the two code points
\* "i" U+0307.
LowerOfUpper ==
    [c \in Range(UpperChars) |-> LowerChars[CHOOSE i \in 1..Len(UpperChars) : UpperChars[i] = c]]

LowerChar(c) ==
    IF c \in DOMAIN LowerOfUpper THEN <<LowerOfUpper[c]>>
    ELSE IF c = "U+0130" THEN <<"i", "U+0307">>
    ELSE <<c>>

\* str.lower(): the characters' lower cases, in order (the string is halved to
\* keep the evaluation shallow).
RECURSIVE Lower(_)
Lower(s) ==
    IF Len(s) = 0 THEN <<>>
    ELSE IF Len(s) = 1 THEN LowerChar(s[1])
    ELSE Lower(SubSeq(s, 1, Len(s) \div 2)) \o Lower(SubSeq(s, Len(s) \div 2 + 1, Len(s)))

\* re.sub(r'[^\w]', '', word).lower()
normalize(s) == Lower(StripNonWord(s))

\* str.split(): the maximal runs of non-blank characters; the first run, from
\* the first non-blank character a to the next blank b, then those after it.
RECURSIVE Split(_)
Split(s) ==
    LET nonblank == {i \in 1..Len(s) : s[i] # " "} IN
    IF nonblank = {} THEN <<>>
    ELSE LET a == CHOOSE i \in nonblank : \A j \in nonblank : i <= j
             blanks == {i \in a..Len(s) : s[i] = " "}
             b == IF blanks = {} THEN Len(s) + 1
                  ELSE CHOOSE i \in blanks : \A j \in blanks : i <= j
         IN <<SubSeq(s, a, b - 1)>> \o Split(SubSeq(s, b, Len(s)))

\* " ".join(parts): a blank between any two neighbours (the list is halved to
\* keep the evaluation shallow).
RECURSIVE Join(_)
Join(parts) ==
    IF Len(parts) = 0 THEN <<>>
    ELSE IF Len(parts) = 1 THEN parts[1]
    ELSE Join(SubSeq(parts, 1, Len(parts) \div 2)) \o <<" ">>
         \o Join(SubSeq(parts, Len(parts) \div 2 + 1, Len(parts)))

StripSet == {":", ",", "."}

RECURSIVE LStrip(_, _)
LStrip(s, cs) == IF s # <<>> /\ Head(s) \in cs THEN LStrip(Tail(s), cs) ELSE s

RECURSIVE RStrip(_, _)
RStrip(s, cs) ==
    IF s # <<>> /\ s[Len(s)] \in cs THEN RStrip(SubSeq(s, 1, Len(s) - 1), cs) ELSE s

\* str.strip(chars)
Strip(s, cs) == RStrip(LStrip(s, cs), cs)

\* --------------------------------------------------------------- geometry

\* A word of the recognizer: word.value and word.geometry = ((x_min, y_min),
\* (x_max, y_max)); geometry[0][0] of the code is geometry[1][1] here.
Word(v, x0, y0, x1, y1) == [value |-> v, geometry |-> <<<<x0, y0>>, <<x1, y1>>>>]

x_min(w) == w.geometry[1][1]
y_min(w) == w.geometry[1][2]
x_max(w) == w.geometry[2][1]
y_max(w) == w.geometry[2][2]

Abs(n) == IF n < 0 THEN -n ELSE n

\* 0.02, the same-line tolerance of find_key_phrase
LineTol == 2

\* 1.0, the page's right and bottom edge
PageEdge == 100

\* 0.95, the right edge of the address area
AddressRight == 95

\* The list comprehensions of lines 56 and 52.
MapNormalize(ws) == [i \in 1..Len(ws) |-> normalize(ws[i].value)]

MapNormalizeTokens(ts) == [i \in 1..Len(ts) |-> normalize(ts[i])]

\* The mutant of SameLine: no line test at all.
SameLine_always(first, last) == TRUE

\* The same-line test of line 59: the top edges of the first and the last word.
SameLine(first, last) == Abs(y_min(first) - y_min(last)) < LineTol

\* The loop of lines 54-61: it returns at the first index i of the range that
\* passes both tests, and falls through to line 61 when none does.
FirstWindow(phrase_words, texts, all_words) ==
    LET n == Len(phrase_words)
        returns == {i \in 1..(Len(all_words) - n + 1) :
                       /\ SubSeq(texts, i, i + n - 1) = phrase_words
                       /\ SameLine(all_words[i], all_words[i + n - 1])}
    IN IF returns = {} THEN None
       ELSE LET i == CHOOSE i \in returns : \A j \in returns : i <= j
            IN SubSeq(all_words, i, i + n - 1)

\* find_key_phrase on all_words, whose normalized texts (line 56) are texts.
FindInTexts(p, texts, all_words) ==
    LET phrase_words == MapNormalizeTokens(Split(p)) IN
    IF phrase_words = <<>> THEN None
    ELSE FirstWindow(phrase_words, texts, all_words)

find_key_phrase(p, all_words) == FindInTexts(p, MapNormalize(all_words), all_words)

Min(S) == CHOOSE m \in S : \A n \in S : m <= n
Max(S) == CHOOSE m \in S : \A n \in S : m >= n

get_phrase_bbox(phrase_words) ==
    IF phrase_words = <<>> THEN None
    ELSE <<Min({x_min(w) : w \in Range(phrase_words)}),
           Min({y_min(w) : w \in Range(phrase_words)}),
           Max({x_max(w) : w \in Range(phrase_words)}),
           Max({y_max(w) : w \in Range(phrase_words)})>>

\* The mutant of InArea: the open rectangle.
InArea_strict(b, w) ==
    /\ x_min(w) + x_max(w) > 2 * b[1]
    /\ x_min(w) + x_max(w) < 2 * b[3]
    /\ y_min(w) + y_max(w) > 2 * b[2]
    /\ y_min(w) + y_max(w) < 2 * b[4]

\* The filter of lines 78-81: the word's center in the closed rectangle.
InArea(b, w) ==
    /\ x_min(w) + x_max(w) >= 2 * b[1]
    /\ x_min(w) + x_max(w) <= 2 * b[3]
    /\ y_min(w) + y_max(w) >= 2 * b[2]
    /\ y_min(w) + y_max(w) <= 2 * b[4]

\* The list comprehension of lines 76-82.
Filter(b, ws) == SelectSeq(ws, LAMBDA w : InArea(b, w))

\* list.sort(key=x_min) is stable: the word at index i comes after the words
\* with a smaller key and after the earlier words with the same key.
SortedPlace(ws, i) ==
    1 + Cardinality({j \in 1..Len(ws) :
                        \/ x_min(ws[j]) < x_min(ws[i])
                        \/ (x_min(ws[j]) = x_min(ws[i]) /\ j < i)})

SortByXMin(ws) ==
    [p \in 1..Len(ws) |-> ws[CHOOSE i \in 1..Len(ws) : SortedPlace(ws, i) = p]]

\* value_words of get_text_in_area after line 83.
ValueWords(b, all_words) ==
    IF b = None THEN <<>> ELSE SortByXMin(Filter(b, all_words))

Values(ws) == [i \in 1..Len(ws) |-> ws[i].value]

\* Line 84.
JoinStrip(ws) == Strip(Join(Values(ws)), StripSet)

get_text_in_area(b, all_words) ==
    IF b = None THEN <<>> ELSE JoinStrip(ValueWords(b, all_words))

\* ----------------------------------------------------------- orchestrator

\* KEYS of lines 95-110.
KEYS ==
    [ name_header |-> <<"L","a","s","t"," ","N","a","m","e",","," ","F","i","r","s","t"," ","N","a","m","e",","," ","M","i","d","d","l","e"," ","N","a","m","e">>,
      license_number |-> <<"L","i","c","e","n","s","e"," ","N","o",".">>,
      expiration_date |-> <<"E","x","p","i","r","a","t","i","o","n"," ","D","a","t","e">>,
      agency_code |-> <<"A","g","e","n","c","y"," ","C","o","d","e">>,
      nationality |-> <<"N","a","t","i","o","n","a","l","i","t","y">>,
      sex |-> <<"S","e","x">>,
      date_of_birth |-> <<"D","a","t","e"," ","o","f"," ","B","i","r","t","h">>,
      weight |-> <<"W","e","i","g","h","t"," ","(","k","g",")">>,
      height |-> <<"H","e","i","g","h","t","(","m",")">>,
      address |-> <<"A","d","d","r","e","s","s">>,
      blood_type |-> <<"B","l","o","o","d"," ","T","y","p","e">>,
      dl_codes |-> <<"D","L"," ","C","o","d","e","s">>,
      eye_color |-> <<"E","y","e","s"," ","C","o","l","o","r">>,
      conditions |-> <<"C","o","n","d","i","t","i","o","n","s">> ]

\* The front of a license as the recognizer reads it, top to bottom and left to
\* right: each label's words carry the label's key, a value's words carry "".
Template ==
    << [key |-> "name_header", word |-> Word(<<"L","a","s","t">>, 5, 20, 9, 23)],
       [key |-> "name_header", word |-> Word(<<"N","a","m","e",",">>, 10, 20, 15, 23)],
       [key |-> "name_header", word |-> Word(<<"F","i","r","s","t">>, 16, 20, 20, 23)],
       [key |-> "name_header", word |-> Word(<<"N","a","m","e",",">>, 21, 20, 26, 23)],
       [key |-> "name_header", word |-> Word(<<"M","i","d","d","l","e">>, 27, 20, 33, 23)],
       [key |-> "name_header", word |-> Word(<<"N","a","m","e">>, 34, 20, 38, 23)],
       [key |-> "", word |-> Word(<<"D","E","L","A">>, 5, 26, 11, 29)],
       [key |-> "", word |-> Word(<<"C","R","U","Z">>, 12, 26, 19, 29)],
       [key |-> "", word |-> Word(<<"J","U","A","N">>, 20, 26, 26, 29)],
       [key |-> "nationality", word |-> Word(<<"N","a","t","i","o","n","a","l","i","t","y">>, 5, 34, 17, 37)],
       [key |-> "", word |-> Word(<<"F","I","L">>, 19, 34, 23, 37)],
       [key |-> "sex", word |-> Word(<<"S","e","x">>, 25, 34, 29, 37)],
       [key |-> "", word |-> Word(<<"M">>, 31, 34, 33, 37)],
       [key |-> "date_of_birth", word |-> Word(<<"D","a","t","e">>, 35, 34, 38, 37)],
       [key |-> "date_of_birth", word |-> Word(<<"o","f">>, 39, 34, 41, 37)],
       [key |-> "date_of_birth", word |-> Word(<<"B","i","r","t","h">>, 42, 34, 47, 37)],
       [key |-> "", word |-> Word(<<"1","9","9","0">>, 49, 34, 58, 37)],
       [key |-> "weight", word |-> Word(<<"W","e","i","g","h","t">>, 60, 34, 66, 37)],
       [key |-> "weight", word |-> Word(<<"(","k","g",")">>, 67, 34, 71, 37)],
       [key |-> "", word |-> Word(<<"7","0">>, 73, 34, 76, 37)],
       [key |-> "height", word |-> Word(<<"H","e","i","g","h","t","(","m",")">>, 78, 34, 88, 37)],
       [key |-> "", word |-> Word(<<"1",".","7">>, 90, 34, 95, 37)],
       [key |-> "license_number", word |-> Word(<<"L","i","c","e","n","s","e">>, 5, 42, 12, 45)],
       [key |-> "license_number", word |-> Word(<<"N","o",".">>, 13, 42, 17, 45)],
       [key |-> "expiration_date", word |-> Word(<<"E","x","p","i","r","a","t","i","o","n">>, 30, 42, 40, 45)],
       [key |-> "expiration_date", word |-> Word(<<"D","a","t","e">>, 41, 42, 45, 45)],
       [key |-> "agency_code", word |-> Word(<<"A","g","e","n","c","y">>, 60, 42, 67, 45)],
       [key |-> "agency_code", word |-> Word(<<"C","o","d","e">>, 68, 42, 72, 45)],
       [key |-> "", word |-> Word(<<"N","0","1">>, 7, 48, 15, 51)],
       [key |-> "", word |-> Word(<<"2","0","2","7">>, 32, 48, 43, 51)],
       [key |-> "", word |-> Word(<<"N","3","2">>, 62, 48, 68, 51)],
       [key |-> "address", word |-> Word(<<"A","d","d","r","e","s","s">>, 5, 56, 13, 59)],
       [key |-> "", word |-> Word(<<"1","2","3">>, 5, 62, 9, 65)],
       [key |-> "", word |-> Word(<<"M","A","I","N">>, 10, 62, 16, 65)],
       [key |-> "", word |-> Word(<<"S","T">>, 17, 62, 20, 65)],
       [key |-> "blood_type", word |-> Word(<<"B","l","o","o","d">>, 5, 70, 11, 73)],
       [key |-> "blood_type", word |-> Word(<<"T","y","p","e">>, 12, 70, 17, 73)],
       [key |-> "eye_color", word |-> Word(<<"E","y","e","s">>, 40, 70, 45, 73)],
       [key |-> "eye_color", word |-> Word(<<"C","o","l","o","r">>, 46, 70, 52, 73)],
       [key |-> "", word |-> Word(<<"O">>, 5, 76, 9, 79)],
       [key |-> "", word |-> Word(<<"B","L","A","C","K">>, 40, 76, 48, 79)],
       [key |-> "dl_codes", word |-> Word(<<"D","L">>, 5, 82, 8, 85)],
       [key |-> "dl_codes", word |-> Word(<<"C","o","d","e","s">>, 9, 82, 15, 85)],
       [key |-> "conditions", word |-> Word(<<"C","o","n","d","i","t","i","o","n","s">>, 40, 82, 52, 85)],
       [key |-> "", word |-> Word(<<"A",",","B">>, 5, 88, 10, 91)],
       [key |-> "", word |-> Word(<<"N","O","N","E">>, 40, 88, 46, 91)] >>

KeyNames == DOMAIN KEYS

\* The fields the record is to hold, one per label of the license.
SchemaFields ==
    {"full_name", "nationality", "sex", "date_of_birth", "weight", "height",
     "license_number", "expiration_date", "agency_code", "address",
     "blood_type", "dl_codes", "eye_color", "conditions"}

NOT_FOUND == <<"N","O","T","_","F","O","U","N","D">>

NOT_IMPLEMENTED == <<"N","O","T","_","I","M","P","L","E","M","E","N","T","E","D">>

\* A dict is a function on its keys.
EmptyDict == <<>>

\* d[k] = v
Put(d, k, v) == (k :> v) @@ d

\* d.get(k, default)
Get(d, k, default) == IF k \in DOMAIN d THEN d[k] ELSE default

\* d.pop(k, None)
Pop(d, k) == [x \in DOMAIN d \ {k} |-> d[x]]

\* Line 113.
KeyBBoxes(words) ==
    LET texts == MapNormalize(words)
    IN [name \in KeyNames |-> get_phrase_bbox(FindInTexts(KEYS[name], texts, words))]

\* Each field's search area, as lines 118-162 build it from the key boxes kb
\* (a box is (x_min, y_min, x_max, y_max), box[0] of the code is box[1] here);
\* None where the code takes the field's else branch.

\* Lines 118-119.
NameArea(kb) ==
    IF kb["name_header"] # None /\ kb["nationality"] # None
    THEN <<kb["name_header"][1], kb["name_header"][4],
           kb["name_header"][3], kb["nationality"][2]>>
    ELSE None

row_keys == <<"nationality", "sex", "date_of_birth", "weight", "height">>

\* Lines 128-130.
RightBoundary(kb, i) ==
    IF i + 1 <= Len(row_keys) /\ kb[row_keys[i + 1]] # None
    THEN kb[row_keys[i + 1]][1]
    ELSE PageEdge

\* The mutant of RowArea: a row field whose next label is missing is given up.
RowArea_needsNext(kb, i) ==
    IF kb[row_keys[i]] # None /\ (i = Len(row_keys) \/ kb[row_keys[i + 1]] # None)
    THEN <<kb[row_keys[i]][3], kb[row_keys[i]][2],
           RightBoundary(kb, i), kb[row_keys[i]][4]>>
    ELSE None

\* The mutant of RowArea: the area starts at the label's left edge.
RowArea_fromLabel(kb, i) ==
    IF kb[row_keys[i]] # None
    THEN <<kb[row_keys[i]][1], kb[row_keys[i]][2],
           RightBoundary(kb, i), kb[row_keys[i]][4]>>
    ELSE None

\* Lines 127-131.
RowArea(kb, i) ==
    IF kb[row_keys[i]] # None
    THEN <<kb[row_keys[i]][3], kb[row_keys[i]][2],
           RightBoundary(kb, i), kb[row_keys[i]][4]>>
    ELSE None

column_keys == <<"license_number", "expiration_date", "agency_code">>

\* The mutant of ColumnArea: the column runs down to the page's bottom edge.
ColumnArea_toPageEdge(kb, key_name) ==
    IF kb[key_name] # None /\ kb["address"] # None
    THEN <<kb[key_name][1], kb[key_name][4], kb[key_name][3], PageEdge>>
    ELSE None

\* The mutant of ColumnArea: the blood type label is asked for as well.
ColumnArea_needsBlood(kb, key_name) ==
    IF kb[key_name] # None /\ kb["address"] # None /\ kb["blood_type"] # None
    THEN <<kb[key_name][1], kb[key_name][4], kb[key_name][3], kb["address"][2]>>
    ELSE None

\* Lines 138-140.
ColumnArea(kb, key_name) ==
    IF kb[key_name] # None /\ kb["address"] # None
    THEN <<kb[key_name][1], kb[key_name][4], kb[key_name][3], kb["address"][2]>>
    ELSE None

\* Lines 146-147.
AddressArea(kb) ==
    IF kb["address"] # None /\ kb["blood_type"] # None
    THEN <<kb["address"][1], kb["address"][4], AddressRight, kb["blood_type"][2]>>
    ELSE None

\* Lines 154-157 and 159-162: the upper field of a stack lies between the two
\* labels, the lower one below the second label down to the page's edge.
UpperArea(kb, upper, lower) ==
    IF kb[upper] # None /\ kb[lower] # None
    THEN <<kb[upper][1], kb[upper][4], kb[lower][3], kb[lower][2]>>
    ELSE None

LowerArea(kb, upper, lower) ==
    IF kb[upper] # None /\ kb[lower] # None
    THEN <<kb[lower][1], kb[lower][4], kb[lower][3], PageEdge>>
    ELSE None

RowIndex(f) == CHOOSE i \in 1..Len(row_keys) : row_keys[i] = f

\* search_area of each field, None where no area is searched.
SearchArea(kb) ==
    [f \in SchemaFields |->
        CASE f = "full_name" -> NameArea(kb)
          [] f \in Range(row_keys) -> RowArea(kb, RowIndex(f))
          [] f \in Range(column_keys) -> ColumnArea(kb, f)
          [] f = "address" -> AddressArea(kb)
          [] f = "blood_type" -> UpperArea(kb, "blood_type", "dl_codes")
          [] f = "dl_codes" -> LowerArea(kb, "blood_type", "dl_codes")
          [] f = "eye_color" -> UpperArea(kb, "eye_color", "conditions")
          [] f = "conditions" -> LowerArea(kb, "eye_color", "conditions")]

\* Lines 118-122.
ExtractName(d, sa, words) ==
    IF sa["full_name"] # None
    THEN Put(d, "full_name", get_text_in_area(sa["full_name"], words))
    ELSE Put(d, "full_name", NOT_FOUND)

\* Lines 126-134 and 137-143: the loop over the keys from index i on.
RECURSIVE ExtractEach(_, _, _, _, _)
ExtractEach(d, keys, i, sa, words) ==
    IF i > Len(keys) THEN d
    ELSE ExtractEach(
             IF sa[keys[i]] # None
             THEN Put(d, keys[i], get_text_in_area(sa[keys[i]], words))
             ELSE Put(d, keys[i], <<>>),
             keys, i + 1, sa, words)

\* Lines 146-150.
ExtractAddress(d, sa, words) ==
    IF sa["address"] # None
    THEN Put(d, "address", get_text_in_area(sa["address"], words))
    ELSE Put(d, "address", <<>>)

\* Lines 154-157 and 159-162: the two temporary keys of a stack, set only when
\* both labels are found.
ExtractStack(d, upper, lower, upper_tmp, lower_tmp, sa, words) ==
    IF sa[upper] # None
    THEN Put(Put(d, upper_tmp, get_text_in_area(sa[upper], words)),
             lower_tmp, get_text_in_area(sa[lower], words))
    ELSE d

TempKeys == <<"blood_type_value", "dl_codes_value", "eye_color_value", "conditions_value">>

FinalKeys == <<"blood_type", "dl_codes", "eye_color", "conditions">>

\* The mutant of Remap: a final key is set only when its temporary key is.
RECURSIVE Remap_noDefault(_, _)
Remap_noDefault(d, i) ==
    IF i > Len(TempKeys) THEN d
    ELSE Remap_noDefault(
             IF TempKeys[i] \in DOMAIN d THEN Put(d, FinalKeys[i], d[TempKeys[i]]) ELSE d,
             i + 1)

\* Lines 165-168.
RECURSIVE Remap(_, _)
Remap(d, i) ==
    IF i > Len(TempKeys) THEN d
    ELSE Remap(Put(d, FinalKeys[i], Get(d, TempKeys[i], <<>>)), i + 1)

\* Lines 171-172.
RECURSIVE PopTemp(_, _)
PopTemp(d, i) == IF i > Len(TempKeys) THEN d ELSE PopTemp(Pop(d, TempKeys[i]), i + 1)

\* Lines 175-177.
NotImplemented(d) ==
    Put(Put(Put(d, "barcode_data", NOT_IMPLEMENTED),
            "photograph_base64", NOT_IMPLEMENTED),
        "signature_base64", NOT_IMPLEMENTED)

\* extracted_data of line 179.
ExtractedData(sa, words) ==
    LET d1 == ExtractName(EmptyDict, sa, words)
        d2 == ExtractEach(d1, row_keys, 1, sa, words)
        d3 == ExtractEach(d2, column_keys, 1, sa, words)
        d4 == ExtractAddress(d3, sa, words)
        d5 == ExtractStack(d4, "blood_type", "dl_codes",
                           "blood_type_value", "dl_codes_value", sa, words)
        d6 == ExtractStack(d5, "eye_color", "conditions",
                           "eye_color_value", "conditions_value", sa, words)
    IN NotImplemented(PopTemp(Remap(d6, 1), 1))


\* ------------------------------------------------------------- the inputs

\* Words the recognizer may read besides the template's, each named by a key.
StrayItems ==
    << \* straddles the start of the Sex label (x 25), its center left of it
       [key |-> "stray_straddle", word |-> Word(<<"X">>, 22, 34, 27, 37)],
       \* a lone full stop between the Nationality label and its value
       [key |-> "stray_dot", word |-> Word(<<".">>, 18, 34, 18, 37)],
       \* a word ending in a bracket right of the Sex value
       [key |-> "stray_bracket", word |-> Word(<<"(","R",")">>, 33, 34, 34, 37)],
       \* a box with x_min > x_max on the address line
       [key |-> "stray_malformed", word |-> Word(<<"Z","Z">>, 30, 62, 28, 65)],
       \* a second Sex label, at the foot of the page, and a value right of it
       [key |-> "stray_sex", word |-> Word(<<"S","e","x">>, 25, 94, 29, 97)],
       [key |-> "stray_sex", word |-> Word(<<"F">>, 31, 94, 33, 97)],
       \* a second address line, 0.085 below the Address label
       [key |-> "stray_line2", word |-> Word(<<"A","P","T">>, 5, 66, 9, 69)],
       \* a word centered on the right edge of the License No. column (x 17)
       [key |-> "stray_edge", word |-> Word(<<"K">>, 15, 48, 19, 51)] >>

Changes == KeyNames \cup {StrayItems[i].key : i \in 1..Len(StrayItems)}

\* How many labels a document lacks and strays it holds, together.
MaxChanges == 3

RECURSIVE SubsetsUpTo(_, _)
SubsetsUpTo(S, k) ==
    IF k = 0 THEN {{}}
    ELSE SubsetsUpTo(S, k - 1) \cup {T \cup {x} : T \in SubsetsUpTo(S, k - 1), x \in S}

WordsOf(items) == [i \in 1..Len(items) |-> items[i].word]

\* The template without the labels in changes, then the strays in changes.
Document(changes) ==
    WordsOf(SelectSeq(Template, LAMBDA it : it.key \notin changes))
    \o WordsOf(SelectSeq(StrayItems, LAMBDA it : it.key \in changes))

\* The word lists of the three scenarios: no word at all, the Nationality row,
\* the Address block.
ScenarioEmpty == <<>>

ScenarioNationality ==
    << Word(<<"N","a","t","i","o","n","a","l","i","t","y">>, 10, 50, 22, 54),
       Word(<<"F","I","L">>, 24, 50, 30, 54),
       Word(<<"S","e","x">>, 32, 50, 36, 54),
       Word(<<"M">>, 38, 50, 40, 54) >>

ScenarioAddress ==
    << Word(<<"A","d","d","r","e","s","s">>, 10, 60, 20, 63),
       Word(<<"1","2","3">>, 10, 65, 14, 68),
       Word(<<"M","a","i","n"," ","S","t">>, 15, 65, 22, 68) >>

Documents ==
    {Document(c) : c \in SubsetsUpTo(Changes, MaxChanges)}
    \cup {ScenarioEmpty, ScenarioNationality, ScenarioAddress}

\* ------------------------------------------------------- the orchestrator

\* The recognizer has read the page: page_words of line 90.
Init ==
    /\ pc = "start"
    /\ page_words \in Documents
    /\ key_bboxes = <<>>
    /\ search_area = <<>>
    /\ value_words = <<>>
    /\ extracted_data = <<>>
    /\ phrase = <<>>
    /\ bbox = None
    /\ ret = <<>>
    /\ WorkerOff

\* Lines 92-179.
process_license_with_doctr ==
    /\ pc = "start"
    /\ key_bboxes' = KeyBBoxes(page_words)
    /\ search_area' = SearchArea(key_bboxes')
    /\ value_words' = [f \in SchemaFields |-> ValueWords(search_area'[f], page_words)]
    /\ extracted_data' = ExtractedData(search_area', page_words)
    /\ pc' = "done"
    /\ UNCHANGED <<page_words, phrase, bbox, ret,
                   worker_vars>>

Next == process_license_with_doctr

Spec == Init /\ [][Next]_vars


\* ------------------------------------------------- what the claims speak of

Done == pc = "done"

Found(k) == key_bboxes[k] # None

\* The label a field is named after.
OwnLabel(f) == IF f = "full_name" THEN "name_header" ELSE f

\* The value a field gets when no area is searched for it.
Default(f) == IF f = "full_name" THEN NOT_FOUND ELSE <<>>

Count(w, ws) == Cardinality({i \in 1..Len(ws) : ws[i] = w})

\* sel holds the words of ws that satisfy P, each as often as ws does, and no other.
SelectsExactly(sel, ws, P(_)) ==
    \A w \in Range(ws) \cup Range(sel) : Count(w, sel) = IF P(w) THEN Count(w, ws) ELSE 0

SortedByXMin(sel) ==
    \A i, j \in 1..Len(sel) : i < j => x_min(sel[i]) <= x_min(sel[j])

\* The word's center lies in the rectangle r = (x_min, y_min, x_max, y_max), its
\* edges included.
CenterInClosed(w, r) ==
    /\ 2 * r[1] <= x_min(w) + x_max(w) /\ x_min(w) + x_max(w) <= 2 * r[3]
    /\ 2 * r[2] <= y_min(w) + y_max(w) /\ y_min(w) + y_max(w) <= 2 * r[4]

\* The word's center lies in the rectangle r, its edges excluded.
CenterInOpen(w, r) ==
    /\ 2 * r[1] < x_min(w) + x_max(w) /\ x_min(w) + x_max(w) < 2 * r[3]
    /\ 2 * r[2] < y_min(w) + y_max(w) /\ y_min(w) + y_max(w) < 2 * r[4]

\* The field's value is the text of the words in the closed rectangle r, from
\* left to right.
ResolvedIn(f, r) ==
    /\ LET In(w) == CenterInClosed(w, r) IN SelectsExactly(value_words[f], page_words, In)
    /\ SortedByXMin(value_words[f])
    /\ extracted_data[f] = JoinStrip(value_words[f])

\* C1 (totality): whatever labels the word list holds, the returned record has an
\* entry for every field of the schema, and besides them only the three
\* not-implemented entries.
Totality ==
    Done =>
        /\ SchemaFields \subseteq DOMAIN extracted_data
        /\ DOMAIN extracted_data =
               SchemaFields \cup {"barcode_data", "photograph_base64", "signature_base64"}

\* C1's case: a record returned for a word list with some labels found and the
\* Blood Type label missing.
TotalityWitness ==
    /\ Done
    /\ \E k \in KeyNames : Found(k)
    /\ ~Found("blood_type")
    /\ extracted_data["blood_type"] = <<>>

\* The labels a field's search area is built from.
Anchors(f) ==
    CASE f = "full_name" -> {"name_header", "nationality"}
      [] f \in Range(row_keys) -> {f}
      [] f \in Range(column_keys) -> {f, "address"}
      [] f = "address" -> {"address", "blood_type"}
      [] f \in {"blood_type", "dl_codes"} -> {"blood_type", "dl_codes"}
      [] f \in {"eye_color", "conditions"} -> {"eye_color", "conditions"}

\* C2 as stated (missing-label isolation): a field whose own label is missing gets
\* its not-found default, and every field whose own label is found is resolved,
\* whatever other label is missing.
MissingLabelIsolation ==
    Done =>
        \A f \in SchemaFields :
            IF Found(OwnLabel(f)) THEN search_area[f] # None
            ELSE extracted_data[f] = Default(f)

\* C2 as amended: a field is resolved exactly when every label its area is built
\* from is found (its own and, for the name, the columns, the address and the
\* stacked fields, the second anchor's), and gets its default otherwise; a label
\* outside that set never changes which of the two happens.
AnchorIsolation ==
    Done =>
        \A f \in SchemaFields :
            IF \A k \in Anchors(f) : Found(k)
            THEN search_area[f] # None /\ extracted_data[f] = JoinStrip(value_words[f])
            ELSE search_area[f] = None /\ extracted_data[f] = Default(f)

\* C2's case: a label is missing, its field has the default, and a field with
\* other anchors is resolved to a text.
AnchorIsolationWitness ==
    /\ Done
    /\ \E f, g \in SchemaFields :
        /\ ~Found(OwnLabel(f))
        /\ extracted_data[f] = Default(f)
        /\ OwnLabel(f) \notin Anchors(g)
        /\ search_area[g] # None
        /\ extracted_data[g] # <<>>

\* The right boundary of row field i: the next row label's x_min when that label
\* is found, the page's edge otherwise.
RowBoundary(i) ==
    IF i < Len(row_keys) /\ Found(row_keys[i + 1])
    THEN key_bboxes[row_keys[i + 1]][1]
    ELSE PageEdge

\* C5 as stated (RightBounded selection): a row field whose label is found holds
\* exactly the words on the anchor's line with x_min right of the anchor's x_max
\* and x_max left of the right boundary; the scenario yields "FIL".
RightBoundedSelection ==
    Done =>
        /\ \A i \in 1..Len(row_keys) :
            Found(row_keys[i]) =>
                LET a == key_bboxes[row_keys[i]]
                    In(w) == /\ Abs((y_min(w) + y_max(w)) - (a[2] + a[4])) < 2 * LineTol
                             /\ x_min(w) > a[3]
                             /\ x_max(w) < RowBoundary(i)
                IN /\ SelectsExactly(value_words[row_keys[i]], page_words, In)
                   /\ extracted_data[row_keys[i]] = JoinStrip(value_words[row_keys[i]])
        /\ page_words = ScenarioNationality => extracted_data["nationality"] = <<"F","I","L">>

\* C5 as amended: a row field whose label is found holds exactly the words whose
\* center lies in the closed rectangle from the anchor's x_max to the right
\* boundary and from the anchor's y_min to its y_max, in ascending x_min order;
\* the scenario yields "FIL".
RowSelection ==
    Done =>
        /\ \A i \in 1..Len(row_keys) :
            Found(row_keys[i]) =>
                LET a == key_bboxes[row_keys[i]]
                IN ResolvedIn(row_keys[i], <<a[3], a[2], RowBoundary(i), a[4]>>)
        /\ page_words = ScenarioNationality => extracted_data["nationality"] = <<"F","I","L">>

\* C5's case: the Nationality and Sex labels are found and the nationality holds a
\* word that reaches over the right boundary.
RowSelectionWitness ==
    /\ Done
    /\ Found("nationality") /\ Found("sex")
    /\ \E w \in Range(value_words["nationality"]) : x_max(w) > key_bboxes["sex"][1]

\* C6 (boundary fallback): a row field whose label is found and whose next row
\* label is not (or which is the last of the row) is searched up to the page's
\* edge and holds the text found there; it is not given its default.
BoundaryFallback ==
    Done =>
        \A i \in 1..Len(row_keys) :
            (Found(row_keys[i]) /\ (i = Len(row_keys) \/ ~Found(row_keys[i + 1]))) =>
                LET a == key_bboxes[row_keys[i]]
                IN /\ search_area[row_keys[i]] = <<a[3], a[2], PageEdge, a[4]>>
                   /\ ResolvedIn(row_keys[i], <<a[3], a[2], PageEdge, a[4]>>)

\* C6's case: the Nationality label is found, the Sex label is not, and the
\* nationality holds a text.
BoundaryFallbackWitness ==
    /\ Done
    /\ Found("nationality") /\ ~Found("sex")
    /\ extracted_data["nationality"] # <<>>

\* C7 as stated (Below selection): a column field or the address whose label is
\* found holds exactly the words whose vertical center is below the anchor's y_max
\* by at most 0.05 and whose horizontal center is within the anchor's extent,
\* whatever other label is found; the Address scenario yields "123 Main St".
BelowSelection ==
    Done =>
        /\ \A f \in Range(column_keys) \cup {"address"} :
            Found(f) =>
                LET a == key_bboxes[f]
                    In(w) == /\ y_min(w) + y_max(w) > 2 * a[4]
                             /\ y_min(w) + y_max(w) <= 2 * (a[4] + 5)
                             /\ 2 * a[1] <= x_min(w) + x_max(w)
                             /\ x_min(w) + x_max(w) <= 2 * a[3]
                IN /\ SelectsExactly(value_words[f], page_words, In)
                   /\ SortedByXMin(value_words[f])
                   /\ extracted_data[f] = JoinStrip(value_words[f])
        /\ page_words = ScenarioAddress =>
               extracted_data["address"] = <<"1","2","3"," ","M","a","i","n"," ","S","t">>

\* C7 as amended: a column field holds, when its label and the Address label are
\* found, exactly the words centered in the closed rectangle of the label's
\* horizontal extent from the label's y_max down to the Address label's y_min; the
\* address holds, when the Address and Blood Type labels are found, the words
\* centered in the closed rectangle from the Address label's x_min to 0.95 and
\* from its y_max down to the Blood Type label's y_min; both in ascending x_min
\* order, and both empty otherwise (as in the Address scenario).
ColumnSelection ==
    Done =>
        /\ \A f \in Range(column_keys) :
            IF Found(f) /\ Found("address")
            THEN ResolvedIn(f, <<key_bboxes[f][1], key_bboxes[f][4],
                                 key_bboxes[f][3], key_bboxes["address"][2]>>)
            ELSE extracted_data[f] = <<>>
        /\ IF Found("address") /\ Found("blood_type")
           THEN ResolvedIn("address", <<key_bboxes["address"][1], key_bboxes["address"][4],
                                        AddressRight, key_bboxes["blood_type"][2]>>)
           ELSE extracted_data["address"] = <<>>
        /\ page_words = ScenarioAddress => extracted_data["address"] = <<>>

\* C7's case: the License No., Address and Blood Type labels are found, and both
\* the license number and the address hold a text.
ColumnSelectionWitness ==
    /\ Done
    /\ Found("license_number") /\ Found("address") /\ Found("blood_type")
    /\ extracted_data["license_number"] # <<>>
    /\ extracted_data["address"] # <<>>

\* A punctuation or whitespace character: neither a letter nor a digit.
IsPunctOrSpace(c) == c \notin WordChars \ {"_"}

\* C8 (field-level cleanup): no value of the returned record, the sentinels aside,
\* starts or ends with a punctuation or whitespace character.
FieldCleanup ==
    Done =>
        \A f \in SchemaFields :
            LET v == extracted_data[f]
            IN v = NOT_FOUND \/ v = <<>>
               \/ (~IsPunctOrSpace(v[1]) /\ ~IsPunctOrSpace(v[Len(v)]))

WellFormed(w) == x_min(w) <= x_max(w) /\ y_min(w) <= y_max(w)

\* C10 (malformed-box rejection): a word whose box has x_min > x_max or
\* y_min > y_max is in no matched label run and gives its text to no field.
MalformedRejected ==
    Done =>
        /\ \A k \in KeyNames :
            \A w \in Range(find_key_phrase(KEYS[k], page_words)) : WellFormed(w)
        /\ \A f \in SchemaFields : \A w \in Range(value_words[f]) : WellFormed(w)


\* ---------------------------------------------------- the phrase matcher

BoundedSeq(S, n) == UNION {[1..k -> S] : k \in 0..n}

\* Label phrases: two tokens, one token, none.
MatchPhrases ==
    { <<"L","i","c","e","n","s","e"," ","N","o",".">>, <<"S","e","x">>, <<>> }

\* Words on three lines: the two License words have top edges 0.02 apart and
\* centers 0.015 apart; "No" is 0.01 below "License" by its top edge and 0.025 by
\* its center.
MatchPool ==
    { Word(<<"L","i","c","e","n","s","e">>, 5, 42, 12, 45),
      Word(<<"L","I","C","E","N","S","E",":">>, 5, 44, 12, 46),
      Word(<<"N","o",".">>, 13, 42, 17, 45),
      Word(<<"N","o">>, 13, 43, 17, 49),
      Word(<<"S","e","x">>, 25, 34, 29, 37),
      Word(<<"N","0","1">>, 7, 48, 15, 51) }

\* The longest word list the matcher is given.
MaxMatchWords == 5

InitMatch ==
    /\ pc = "match_call"
    /\ phrase \in MatchPhrases
    /\ page_words \in BoundedSeq(MatchPool, MaxMatchWords)
    /\ bbox = None
    /\ ret = <<>>
    /\ key_bboxes = <<>>
    /\ search_area = <<>>
    /\ value_words = <<>>
    /\ extracted_data = <<>>
    /\ WorkerOff

\* find_key_phrase(phrase, page_words), then get_phrase_bbox of what it returns
\* (line 113).
FindKeyPhrase ==
    /\ pc = "match_call"
    /\ ret' = find_key_phrase(phrase, page_words)
    /\ bbox' = get_phrase_bbox(ret')
    /\ pc' = "match_ret"
    /\ UNCHANGED <<page_words, phrase, key_bboxes, search_area, value_words, extracted_data,
                   worker_vars>>

NextMatch == FindKeyPhrase

SpecMatch == InitMatch /\ [][NextMatch]_vars

\* The tokens of the phrase, and the windows of the word list that hold them.
PhraseTokens == MapNormalizeTokens(Split(phrase))

Windows == 1..(Len(page_words) - Len(PhraseTokens) + 1)

LastOf(i) == i + Len(PhraseTokens) - 1

ContentMatch(i) ==
    \A k \in 1..Len(PhraseTokens) : normalize(page_words[i + k - 1].value) = PhraseTokens[k]

TopsAligned(i) == Abs(y_min(page_words[i]) - y_min(page_words[LastOf(i)])) < LineTol

CentersAligned(i) ==
    Abs((y_min(page_words[i]) + y_max(page_words[i]))
        - (y_min(page_words[LastOf(i)]) + y_max(page_words[LastOf(i)]))) < 2 * LineTol

\* ret is the window at the least index that satisfies Hit, None when there is none.
ReturnsFirst(Hit(_)) ==
    IF PhraseTokens = <<>> \/ \A i \in Windows : ~Hit(i)
    THEN ret = None
    ELSE \E i \in Windows :
            /\ Hit(i)
            /\ \A j \in Windows : Hit(j) => i <= j
            /\ ret = SubSeq(page_words, i, LastOf(i))

\* C3 as stated (first-match policy): find_key_phrase returns the first window
\* whose normalized texts equal the phrase's tokens and whose first and last word
\* have vertical centers less than 0.02 apart, and None when there is none.
FirstMatchByCenters ==
    pc = "match_ret" =>
        LET Hit(i) == ContentMatch(i) /\ CentersAligned(i) IN ReturnsFirst(Hit)

\* C3 as amended: find_key_phrase returns the first window whose normalized texts
\* equal the phrase's tokens and whose first and last word have top edges (y_min)
\* less than 0.02 apart, and None when there is none.
FirstMatchByTops ==
    pc = "match_ret" =>
        LET Hit(i) == ContentMatch(i) /\ TopsAligned(i) IN ReturnsFirst(Hit)

\* C3's case: a window is returned after an earlier window that holds the phrase's
\* tokens and fails the line test.
FirstMatchWitness ==
    /\ pc = "match_ret"
    /\ ret # None
    /\ \E i, j \in Windows :
        /\ i < j
        /\ ContentMatch(i) /\ ~TopsAligned(i)
        /\ ret = SubSeq(page_words, j, LastOf(j))

\* ---------------------------------------------------- the area resolver

\* A rectangle, a rectangle of no width, and no rectangle.
AreaRects == { <<4, 4, 8, 8>>, <<4, 4, 4, 8>>, None }

\* Words centered inside the first rectangle, on its edges and its corner, and
\* outside it.
AreaPool ==
    { Word(<<"a">>, 5, 5, 7, 7),
      Word(<<"b">>, 3, 5, 5, 7),
      Word(<<"c">>, 7, 5, 9, 7),
      Word(<<"d">>, 5, 7, 7, 9),
      Word(<<"e">>, 1, 5, 2, 7),
      Word(<<".">>, 4, 5, 5, 6),
      Word(<<"g">>, 2, 3, 6, 5),
      Word(<<"(","h",")">>, 5, 5, 13, 7),
      Word(<<"i">>, 6, 2, 8, 12) }

\* The longest word list the resolver is given.
MaxAreaWords == 3

InitArea ==
    /\ pc = "area_call"
    /\ bbox \in AreaRects
    /\ page_words \in BoundedSeq(AreaPool, MaxAreaWords)
    /\ value_words = <<>>
    /\ ret = <<>>
    /\ phrase = <<>>
    /\ key_bboxes = <<>>
    /\ search_area = <<>>
    /\ extracted_data = <<>>
    /\ WorkerOff

\* get_text_in_area(bbox, page_words)
GetTextInArea ==
    /\ pc = "area_call"
    /\ value_words' = ValueWords(bbox, page_words)
    /\ ret' = get_text_in_area(bbox, page_words)
    /\ pc' = "area_ret"
    /\ UNCHANGED <<page_words, phrase, bbox, key_bboxes, search_area, extracted_data,
                   worker_vars>>

NextArea == GetTextInArea

SpecArea == InitArea /\ [][NextArea]_vars

\* C4 as stated (area containment): the words that give their text to the result
\* are exactly those whose center is strictly inside the rectangle.
StrictContainment ==
    (pc = "area_ret" /\ bbox # None) =>
        /\ LET In(w) == CenterInOpen(w, bbox) IN SelectsExactly(value_words, page_words, In)
        /\ ret = JoinStrip(value_words)

\* C4 as amended: the words that give their text to the result are exactly those
\* whose center is inside the rectangle or on its edge; a word centered outside
\* never contributes.
ClosedContainment ==
    (pc = "area_ret" /\ bbox # None) =>
        /\ LET In(w) == CenterInClosed(w, bbox) IN SelectsExactly(value_words, page_words, In)
        /\ ret = JoinStrip(value_words)

\* C4's case: the result holds a word centered on an edge and a word centered
\* strictly inside, and leaves out a word of the list.
ClosedContainmentWitness ==
    /\ pc = "area_ret"
    /\ bbox # None
    /\ \E w \in Range(value_words) : ~CenterInOpen(w, bbox)
    /\ \E w \in Range(value_words) : CenterInOpen(w, bbox)
    /\ \E w \in Range(page_words) : w \notin Range(value_words)

\* ------------------------------------------------------ the normalizer

\* An upper-case and a lower-case letter, a digit, the underscore, a full stop,
\* a blank and U+0130.
NormAlphabet == {"A", "b", "7", "_", ".", " ", "U+0130"}

\* The longest string normalized.
MaxStrLen == 3

InitNorm ==
    /\ pc = "norm_call"
    /\ phrase \in BoundedSeq(NormAlphabet, MaxStrLen)
    /\ page_words = <<>>
    /\ bbox = None
    /\ ret = <<>>
    /\ key_bboxes = <<>>
    /\ search_area = <<>>
    /\ value_words = <<>>
    /\ extracted_data = <<>>
    /\ WorkerOff

\* The normalization of lines 52 and 56, applied to the string.
Normalize ==
    /\ pc = "norm_call"
    /\ ret' = <<normalize(phrase)>>
    /\ pc' = "norm_once"
    /\ UNCHANGED <<page_words, phrase, bbox, key_bboxes, search_area, value_words,
                   extracted_data, worker_vars>>

\* The normalization applied to its own result.
NormalizeAgain ==
    /\ pc = "norm_once"
    /\ ret' = Append(ret, normalize(ret[1]))
    /\ pc' = "norm_twice"
    /\ UNCHANGED <<page_words, phrase, bbox, key_bboxes, search_area, value_words,
                   extracted_data, worker_vars>>

NextNorm == Normalize \/ NormalizeAgain

SpecNorm == InitNorm /\ [][NextNorm]_vars

\* C9 (normalization idempotence): normalizing a normalized string changes
\* nothing, and a normalized string holds lower-case letters and digits only.
NormalizationIdempotent ==
    pc = "norm_twice" =>
        /\ ret[2] = ret[1]
        /\ \A c \in Range(ret[1]) : c \in Range(LowerChars) \cup DigitChars


\* ------------------------------------------------------------- the worker
\* src/services/worker/worker.py and the poll of src/services/web-app/app.py.

\* The job ids the producers hand out (uuid4 strings, web-app line 38).
Jobs == {"job1", "job2"}

\* The keys callback reads from a message (lines 114, 118-125).
MessageKeys == {"job_id", "image_base64", "document_type", "instructions"}

\* message["image_base64"], message["document_type"], message["instructions"]
\* (lines 122-124) raise KeyError on a missing key; message.get does not.
RequiredKeys == {"image_base64", "document_type", "instructions"}

\* None where it is a job id or a field of the stored document.
NoneValue == "None"

\* A body on the queue: whether it is JSON text, the keys of the object it
\* encodes and the job id it carries.
Body(json, keys, job_id) == [json |-> json, keys |-> keys, job_id |-> job_id]

\* The bodies a producer may publish on doc_proc_jobs: what scan publishes
\* (web-app lines 45-50, all four keys), an object without job_id, objects
\* without a key callback subscripts, and text that is no JSON.
Bodies ==
    {Body(TRUE, MessageKeys, j) : j \in Jobs}
    \cup {Body(TRUE, RequiredKeys, NoneValue),
          Body(TRUE, MessageKeys \ {"image_base64"}, "job1"),
          Body(TRUE, MessageKeys \ {"instructions"}, "job2"),
          Body(FALSE, {}, NoneValue)}

\* The most bodies on the queue when the worker starts.
MaxQueued == 2

\* The most deliveries the broker makes in a run.
MaxDeliveries == 4

\* json.loads(body) of line 113, for a body that is JSON: the dict.
Loads(body) ==
    [k \in body.keys |-> IF k = "job_id" THEN body.job_id ELSE k]

\* Whether callback raises before its try block: json.loads on text that is
\* no JSON (line 113) or a subscript on a missing key (lines 122-124).
Raises(body) == ~body.json \/ ~(RequiredKeys \subseteq body.keys)

\* What process_document_offline returns (lines 86-109): the extracted JSON or
\* an error dict; it catches every exception itself.
Extractions == {"extracted", "error"}

\* final_result of lines 116-120 and 128.
FinalResult(message, extracted) ==
    [job_id |-> Get(message, "job_id", NoneValue),
     document_type |-> Get(message, "document_type", NoneValue),
     user_instructions |-> Get(message, "instructions", NoneValue),
     extracted_data |-> extracted]

\* collection.update_one({'job_id': job_id}, {'$set': final_result}, upsert=True)
\* of line 133: final_result sets every field of the document.
UpdateOne(collection, job_id, final_result) == Put(collection, job_id, final_result)

\* The delivery the worker is working on, and its tag.
delivery_tag == Len(deliveries)

body_delivered == deliveries[delivery_tag]

EngineOff ==
    /\ pc = "worker"
    /\ page_words = <<>>
    /\ key_bboxes = <<>>
    /\ search_area = <<>>
    /\ value_words = <<>>
    /\ extracted_data = <<>>
    /\ phrase = <<>>
    /\ bbox = None
    /\ ret = <<>>

engine_vars == <<pc, page_words, key_bboxes, search_area, value_words,
                 extracted_data, phrase, bbox, ret>>

\* The worker starts with some bodies published and nothing delivered.
InitWorker ==
    /\ EngineOff
    /\ worker_pc = "main"
    /\ doc_proc_jobs \in {q \in SUBSET Bodies : 1 <= Cardinality(q) /\ Cardinality(q) <= MaxQueued}
    /\ unacked = {}
    /\ deliveries = <<>>
    /\ acked = {}
    /\ nacked = {}
    /\ upserted = {}
    /\ processed_documents = <<>>
    /\ response = <<>>

\* main, lines 143-158: the loop connects, declares the queue and consumes.
main ==
    /\ worker_pc = "main"
    /\ worker_pc' = "start_consuming"
    /\ UNCHANGED <<doc_proc_jobs, unacked, deliveries, acked, nacked, upserted,
                   processed_documents, response, engine_vars>>

\* The broker hands the consumer one body of the queue (basic_consume with
\* prefetch_count 1, lines 154-155): on_message_callback is entered.
deliver ==
    /\ worker_pc = "start_consuming"
    /\ delivery_tag < MaxDeliveries
    /\ \E body \in doc_proc_jobs :
          /\ doc_proc_jobs' = doc_proc_jobs \ {body}
          /\ deliveries' = Append(deliveries, body)
    /\ worker_pc' = "callback"
    /\ UNCHANGED <<unacked, acked, nacked, upserted, processed_documents,
                   response, engine_vars>>

\* callback, lines 111-140, on an exception before the try block: it leaves
\* callback and start_consuming, main's handler catches it (lines 159-162) and
\* the loop starts over; the delivery stays unacknowledged on the connection
\* the worker leaves behind.
callback_raises ==
    /\ Raises(body_delivered)
    /\ worker_pc' = "main"
    /\ unacked' = unacked \cup {body_delivered}
    /\ UNCHANGED <<doc_proc_jobs, acked, nacked, upserted, processed_documents>>

\* callback, lines 130-136: the write succeeds, then basic_ack.
callback_ack(extracted) ==
    LET message == Loads(body_delivered)
        final_result == FinalResult(message, extracted)
    IN /\ processed_documents' =
              UpdateOne(processed_documents, final_result.job_id, final_result)
       /\ upserted' = upserted \cup {delivery_tag}
       /\ acked' = acked \cup {delivery_tag}
       /\ worker_pc' = "start_consuming"
       /\ UNCHANGED <<doc_proc_jobs, unacked, nacked>>

\* callback, lines 137-140: get_mongo_client or update_one raises, then
\* basic_nack with requeue: the broker puts the body back on the queue.
callback_nack ==
    /\ nacked' = nacked \cup {delivery_tag}
    /\ doc_proc_jobs' = doc_proc_jobs \cup {body_delivered}
    /\ worker_pc' = "start_consuming"
    /\ UNCHANGED <<unacked, acked, upserted, processed_documents>>

\* callback(ch, method, properties, body), lines 111-140.
callback ==
    /\ worker_pc = "callback"
    /\ \/ callback_raises
       \/ /\ ~Raises(body_delivered)
          /\ \E extracted \in Extractions, store_ok \in BOOLEAN :
                IF store_ok THEN callback_ack(extracted) ELSE callback_nack
    /\ UNCHANGED <<deliveries, response, engine_vars>>

\* The broker requeues a delivery left unacknowledged on a connection that
\* is gone.
requeue ==
    /\ \E body \in unacked :
          /\ unacked' = unacked \ {body}
          /\ doc_proc_jobs' = doc_proc_jobs \cup {body}
    /\ UNCHANGED <<worker_pc, deliveries, acked, nacked, upserted,
                   processed_documents, response, engine_vars>>

\* get_result(job_id), web-app lines 73-89.
get_result ==
    /\ worker_pc # "off"
    /\ \E job_id \in Jobs, db_ok \in BOOLEAN :
          response' =
              IF ~db_ok THEN [status |-> "error"]
              ELSE IF job_id \in DOMAIN processed_documents
                   THEN [status |-> "completed", data |-> processed_documents[job_id]]
                   ELSE [status |-> "pending"]
    /\ UNCHANGED <<worker_pc, doc_proc_jobs, unacked, deliveries, acked, nacked,
                   upserted, processed_documents, engine_vars>>

NextWorker == main \/ deliver \/ callback \/ requeue \/ get_result

\* The loop of main reconnects, start_consuming dispatches a ready body, every
\* call of callback is bounded by timeouts, and the broker requeues what a
\* lost connection held; nobody has to poll.
FairWorker ==
    /\ WF_vars(main)
    /\ WF_vars(deliver)
    /\ WF_vars(callback)
    /\ WF_vars(requeue)

SpecWorker == InitWorker /\ [][NextWorker]_vars /\ FairWorker

\* The deliveries made so far, by tag, and those whose callback has ended.
Delivered == 1..Len(deliveries)

Ended == {t \in Delivered : t < delivery_tag \/ worker_pc # "callback"}

JobIdOf(t) == IF "job_id" \in deliveries[t].keys THEN deliveries[t].job_id ELSE NoneValue

\* A delivery is acknowledged only after its result document is in the
\* collection under its job id.
AckAfterUpsert ==
    \A t \in acked :
        /\ t \in upserted
        /\ JobIdOf(t) \in DOMAIN processed_documents
        /\ processed_documents[JobIdOf(t)].job_id = JobIdOf(t)

\* A delivery whose write failed is negatively acknowledged, never acknowledged.
StoreFailureNacks ==
    \A t \in Ended :
        (~Raises(deliveries[t]) /\ t \notin upserted) => (t \in nacked /\ t \notin acked)

\* No delivery is both acknowledged and negatively acknowledged.
AtMostOneAnswer == acked \cap nacked = {}

\* Every delivery is in the end acknowledged or negatively acknowledged.
EveryDeliveryAnswered ==
    \A t \in 1..MaxDeliveries : (t \in Delivered) ~> (t \in acked \cup nacked)

\* Every delivery whose callback reaches its try block is in the end answered.
HandledDeliveryAnswered ==
    \A t \in 1..MaxDeliveries :
        (t \in Delivered /\ ~Raises(deliveries[t])) ~> (t \in acked \cup nacked)

\* The safety half of the protocol.
AckSafety == AckAfterUpsert /\ StoreFailureNacks /\ AtMostOneAnswer

\* A delivery was acknowledged after its write, another one was negatively
\* acknowledged after a failed write and delivered again.
AckSafetyWitness ==
    /\ acked # {}
    /\ \E t \in nacked, u \in Delivered : t < u /\ deliveries[u] = deliveries[t]

\* A callback raised before its try block: its delivery has ended with neither
\* answer, and the worker is back in main.
UnansweredDelivery ==
    \E t \in Ended : t \notin acked \cup nacked

\* C11 (worker acknowledgement protocol): a delivery is acknowledged only after
\* its result document has been upserted under its job id, a failed write is
\* answered by nack-requeue and never by ack, and every delivery, one whose
\* body lacks a required field included, ends in exactly one of ack and
\* nack-requeue.
AckProtocol == []AckSafety /\ EveryDeliveryAnswered

====
